---------------------------- MODULE Spec2Model ----------------------------
(***************************************************************************)
(* Conforming-cap construction engine of the lamp designer.                *)
(*                                                                         *)
(* The repository holds several revisions of src/caps.js (three in         *)
(* src/src/caps.js, the others in src/unnamed/part_000..part_003).  Every  *)
(* revision exports buildConformingCap; each is modelled by its own action *)
(* and the suffix of a definition names the revision it is taken from:     *)
(*    _c1  src/src/caps.js:19     single keyhole, "corrected" tangency     *)
(*    _c2  src/src/caps.js:225    circle + D-slot, CSG cut when tilted     *)
(*    _c3  src/src/caps.js:481    CSG only                                 *)
(*    _p0  src/unnamed/part_000   circle + radial pill slot                *)
(*    _p1a src/unnamed/part_001:18   keyhole with rim guard                *)
(*    _p1b src/unnamed/part_001:157  circle + D-slot                       *)
(*    _p2  src/unnamed/part_002   single keyhole                           *)
(*    _p3  src/unnamed/part_003   circle only                              *)
(*                                                                         *)
(* Numbers.  Lengths are integers in units of 1/20 mm (Mm(x) = 20 x), so   *)
(* that 0.5 mm, 0.1 mm, 0.7 mm and the 0.995 shrink of round radii are     *)
(* whole.  An angle is kept symbolically as (q * pi/2 + s * alpha) / d,    *)
(* with alpha the tangency half-angle, so that sums, differences and the   *)
(* steps of an arc are exact.  sin(alpha) is the rational sn/den the code  *)
(* passes to asin and cos(alpha) = sqrt(den^2 - sn^2)/den, rounded to      *)
(* 1/den.  A vertex has coordinates when its angle is a whole number of    *)
(* quarter turns plus a whole multiple of alpha; the other vertices of an  *)
(* arc are kept by centre, radius and angle only.                          *)
(***************************************************************************)
EXTENDS Integers, Sequences, FiniteSets, TLC

VARIABLES p, options, holeR, capH, cap,
          rev,       \* which revision of caps.js the page has loaded
          calls,     \* how many calls and edits have been made
          last,      \* what the latest step was
          capIn,     \* the arguments of the call that returned cap
          first,     \* the first call of buildConformingCap and what it returned
          dbg,       \* the latest call of buildSlotDebug and what it returned
          app,       \* the page: its scene and the module-level variables of main.js
          ui,        \* the values the controls of the page show
          arc        \* one call of arcCW: its arguments and the points appended

vars == <<p, options, holeR, capH, cap, rev, calls, last, capIn, first, dbg, app, ui, arc>>

Mm(x) == 20 * x

Abs(x) == IF x < 0 THEN -x ELSE x
Max(a, b) == IF a >= b THEN a ELSE b
Min(a, b) == IF a <= b THEN a ELSE b
Sign(x) == IF x > 0 THEN 1 ELSE IF x < 0 THEN -1 ELSE 0

\* n/d rounded to the nearest integer (d > 0)
RDiv(n, d) == IF n >= 0 THEN (2 * n + d) \div (2 * d) ELSE -((2 * (-n) + d) \div (2 * d))

\* floor(sqrt(n)) by Newton's iteration
RECURSIVE SqrtIter(_, _)
SqrtIter(n, x) ==
  LET y == (x + n \div x) \div 2
  IN IF y >= x THEN x ELSE SqrtIter(n, y)

ISqrt(n) == IF n <= 0 THEN 0 ELSE SqrtIter(n, n)

\* sqrt(n) rounded to the nearest integer
RSqrt(n) == (ISqrt(4 * n) + 1) \div 2

(***************************************************************************)
(* Angles                                                                  *)
(***************************************************************************)
\* (q * pi/2 + s * alpha) / d, plus e times the seam offset EPS = 1e-4 rad;
\* nan marks the JavaScript NaN
Ang(q, s, d) == [q |-> q, s |-> s, d |-> d, e |-> 0, nan |-> FALSE]
Quarter(q) == Ang(q, 0, 1)
NaNAngle == [q |-> 0, s |-> 0, d |-> 1, e |-> 0, nan |-> TRUE]

AngAdd(a, b) ==
  [q |-> a.q * b.d + b.q * a.d, s |-> a.s * b.d + b.s * a.d, d |-> a.d * b.d,
   e |-> a.e + b.e, nan |-> a.nan \/ b.nan]
AngNeg(a) == [a EXCEPT !.q = -a.q, !.s = -a.s, !.e = -a.e]
AngSub(a, b) == AngAdd(a, AngNeg(b))
\* a * i / n
AngScale(a, i, n) == [a EXCEPT !.q = a.q * i, !.s = a.s * i, !.d = a.d * n]

\* alpha as the code's asin produces it: sin = sn/den, cos = cs/den;
\* mq = alpha in thousandths of a quarter turn; nan when the argument is outside [-1, 1]
\* or is itself NaN
NoAlpha == [sn |-> 0, cs |-> 1, den |-> 1, mq |-> 0, nan |-> FALSE]

\* sign of the real value of angle a (alpha in (0, pi/2)); al decides the
\* cases where the quarter-turn part and the alpha part pull opposite ways
AngSign(a, al) ==
  IF a.q = 0 THEN Sign(a.s)
  ELSE IF a.s = 0 \/ Sign(a.s) = Sign(a.q) THEN Sign(a.q)
  ELSE \* q*pi/2 against |s|*alpha, in thousandths of a quarter turn
    Sign(a.q * 1000 + a.s * al.mq)

\* a1 >= a0 in JavaScript: false when either side is NaN
AngGeq(a1, a0, al) ==
  /\ ~a1.nan /\ ~a0.nan
  /\ AngSign(AngSub(a1, a0), al) >= 0

\* the angle is a whole number of quarter turns and a whole multiple of alpha
OnGrid(a) == a.q % a.d = 0 /\ a.s % a.d = 0 /\ (a.s \div a.d) \in {-1, 0, 1}

Rot(q, v) ==
  LET k == q % 4
  IN CASE k = 0 -> v
       [] k = 1 -> <<-v[2], v[1]>>
       [] k = 2 -> <<-v[1], -v[2]>>
       [] k = 3 -> <<v[2], -v[1]>>

\* <<cos a * den, sin a * den, den>> for an angle on the grid
UnitVec(a, al) ==
  LET s == a.s \div a.d
      q == a.q \div a.d
  IN IF s = 0 THEN LET v == Rot(q, <<1, 0>>) IN <<v[1], v[2], 1>>
     ELSE LET v == Rot(q, <<al.cs, s * al.sn>>) IN <<v[1], v[2], al.den>>


(***************************************************************************)
(* Boundary oracle: src/src/geometry.js                                    *)
(*                                                                         *)
(* A parameter set is a record: lengths (rbase, wallFixed, height) in      *)
(* length units, topscale and amp in hundredths, twist in degrees, waves   *)
(* an integer.  A height fraction is given in halves (0, 1, 2 for 0, 0.5,  *)
(* 1), where |2t-1|^1.4 is 1, 0, 1 exactly.                                *)
(***************************************************************************)
\* Math.sin of n/m quarter turns, in thousandths.  k is the angle in
\* thousandths of a quarter turn; the value is Bhaskara's rational
\* approximation 16 t (1-t) / (5 - 4 t (1-t)), t the fraction of a half turn,
\* exact at every multiple of a quarter turn and within 0.002 elsewhere.
SinMilli(n, m) ==
  LET k == RDiv((n % (4 * m)) * 1000, m)
      h == IF k >= 2000 THEN k - 2000 ELSE k
      w == h * (2000 - h)
      b == (16 * w * 100) \div ((20000000 - 4 * w) \div 10)
  IN IF k >= 2000 THEN -b ELSE b

baseRadius(t, R0, R1) ==
  LET pow == IF t = 1 THEN 0 ELSE 1          \* Math.pow(Math.abs(2*t-1), 1.4)
      belly == 100 + 18 * (1 - pow)          \* hundredths
      lerp2 == 2 * R0 + (R1 - R0) * t        \* twice THREE.MathUtils.lerp(R0, R1, t)
  IN RDiv(lerp2 * belly, 200)

\* rOuter - p.wallFixed returned as it is, the Math.max(1, .) left out
innerRadiusAt_noFloor(pp, v, ang) ==
  LET R0 == pp.rbase
      R1 == RDiv(R0 * pp.topscale, 100)
      br == baseRadius(v, R0, R1)
      \* waves*ang + twist*v, in quarter turns over 180*d (v in halves)
      nV == pp.waves * ang.q * 180 + pp.twist * v * ang.d
      \* (waves*2*pi)*v + 1.5*ang, in quarter turns over 2*d
      nH == 4 * pp.waves * v * ang.d + 3 * ang.q
      sn == IF pp.ripdir = "vertical" THEN SinMilli(nV, 180 * ang.d)
                                      ELSE SinMilli(nH, 2 * ang.d)
      rOuter == RDiv(br * (100000 + pp.amp * sn), 100000)
  IN rOuter - pp.wallFixed

\* the oracle; ang is an angle without alpha part (its seam offset EPS, at
\* most waves * 1e-4 rad inside the sine, is below the resolution of SinMilli)
innerRadiusAt(pp, v, ang) ==
  LET R0 == pp.rbase
      R1 == RDiv(R0 * pp.topscale, 100)
      br == baseRadius(v, R0, R1)
      \* waves*ang + twist*v, in quarter turns over 180*d (v in halves)
      nV == pp.waves * ang.q * 180 + pp.twist * v * ang.d
      \* (waves*2*pi)*v + 1.5*ang, in quarter turns over 2*d
      nH == 4 * pp.waves * v * ang.d + 3 * ang.q
      sn == IF pp.ripdir = "vertical" THEN SinMilli(nV, 180 * ang.d)
                                      ELSE SinMilli(nH, 2 * ang.d)
      rOuter == RDiv(br * (100000 + pp.amp * sn), 100000)
  IN Max(Mm(1), rOuter - pp.wallFixed)

\* the rim radius taken as it is, the 0.995 forgotten
Shrink_none(r) == r

\* r * 0.995
Shrink(r) == RDiv(r * 995, 1000)

\* p.res === "low" ? 96 : (p.res === "med" ? 180 : 300)
radialSeg(pp) == IF pp.res = "low" THEN 96 ELSE IF pp.res = "med" THEN 180 ELSE 300

(***************************************************************************)
(* Vertices and paths                                                      *)
(***************************************************************************)
\* the point (cx, cy) + r * (cos a, sin a); x, y are its coordinates when
\* exact holds
Vtx(cx, cy, r, a, al) ==
  LET ok == ~a.nan /\ OnGrid(a)
      u == IF ok THEN UnitVec(a, al) ELSE <<0, 0, 1>>
  IN [cx |-> cx, cy |-> cy, r |-> r, a |-> a, nan |-> a.nan, exact |-> ok,
      x |-> IF ok THEN cx + RDiv(r * u[1], u[3]) ELSE 0,
      y |-> IF ok THEN cy + RDiv(r * u[2], u[3]) ELSE 0]

\* path.moveTo(x, y) / path.lineTo(x, y) with plain coordinates
Pt(x, y) == Vtx(x, y, 0, Quarter(0), NoAlpha)

\* Math.asin(sn/den); isNaN: the argument is already NaN
ClampDen == 1000000
Asin(sn, den, isNaN) ==
  IF isNaN \/ sn > den \/ sn < -den
  THEN [sn |-> 0, cs |-> 0, den |-> 1, mq |-> 0, nan |-> TRUE]
  ELSE LET a == Abs(sn)
           \* alpha in thousandths of a quarter turn (inverse of SinMilli),
           \* strictly inside (0, 1000) when 0 < sin < 1
           root == ISqrt((4 * (den - a) * (1000000 \div Max(1, den \div 500))) \div
                          ((4 * den + a) \div Max(1, den \div 500)))
           m == IF a = 0 THEN 0 ELSE IF a = den THEN 1000
                ELSE Max(1, Min(999, 1000 - root))
       IN [sn |-> sn, cs |-> RSqrt((den - a) * (den + a)), den |-> den,
           mq |-> Sign(sn) * m, nan |-> FALSE]

\* the angle alpha itself
AlphaAng(al) == IF al.nan THEN NaNAngle ELSE Ang(0, 1, 1)


(***************************************************************************)
(* Slot options.  An option that is not set is a field the record lacks;   *)
(* angles are whole quarter turns, lengths are in length units.            *)
(***************************************************************************)
Has(o, k) == k \in DOMAIN o
\* o.k ?? dflt
Get(o, k, dflt) == IF Has(o, k) THEN o[k] ELSE dflt
\* o.k || dflt (numbers: 0 is falsy)
GetOr(o, k, dflt) == IF Has(o, k) /\ o[k] # 0 THEN o[k] ELSE dflt
\* options.bottomSlot as a condition
Truthy(o, k) == Has(o, k) /\ o[k] = TRUE

\* the JavaScript NaN as the value of a numeric option
NaN == 2147483647
\* options.slotAngle ?? 0: NaN is neither null nor undefined and is kept
slotAngleOf(o) ==
  IF Get(o, "slotAngle", 0) = NaN THEN NaNAngle ELSE Quarter(Get(o, "slotAngle", 0))

(***************************************************************************)
(* Arc helpers                                                             *)
(***************************************************************************)
\* the seg points a0 + step*i, i = 1..seg, step = (a1 - a0)/seg, around
\* (cx, cy) at radius r
ArcSteps(cx, cy, r, a0, a1, seg, al) ==
  [i \in 1..seg |-> Vtx(cx, cy, r, AngAdd(a0, AngScale(AngSub(a1, a0), i, seg)), al)]

\* arcCW without its test: the end angle taken as given
arcCW_noWrap(cx, cy, r, aStart, aEnd, seg, al) == ArcSteps(cx, cy, r, aStart, aEnd, seg, al)

\* arcCW: if (a1 >= a0) a1 -= 2*PI, then step from a0 to a1
arcCW(cx, cy, r, aStart, aEnd, seg, al) ==
  LET a1 == IF AngGeq(aEnd, aStart, al) THEN AngSub(aEnd, Quarter(4)) ELSE aEnd
  IN ArcSteps(cx, cy, r, aStart, a1, seg, al)

\* arcPoints: steps from a0 to a1 as given, increasing or decreasing
arcPoints(cx, cy, r, a0, a1, seg, al) == ArcSteps(cx, cy, r, a0, a1, seg, al)

\* halfW / r with the Math.min(1 - 1e-6, .) left out
sinAlphaOf_unclamped(halfW, r) ==
  IF r = 0 THEN <<ClampDen - 1, ClampDen>>
  ELSE IF r > 0 THEN <<halfW, r>> ELSE <<-halfW, -r>>

\* Math.min(1 - 1e-6, halfW / r) as the fraction <<sn, den>>.  halfW/r >=
\* 1 - 1e-6 iff (r - halfW) * 1e6 <= r; r = 0 divides to Infinity.
sinAlphaOf(halfW, r) ==
  IF r = 0 \/ (r > 0 /\ (halfW >= r \/ (r - halfW) * ClampDen <= r))
  THEN <<ClampDen - 1, ClampDen>>
  ELSE IF r > 0 THEN <<halfW, r>> ELSE <<-halfW, -r>>

\* Math.max(24, Math.floor((2*PI - 2*alpha) / (2*PI) * 96)); with alpha NaN
\* the result is NaN and the arc loop (i <= NaN) runs no step: 0 here
bigSegOf(al, least, full) ==
  IF al.nan THEN 0 ELSE Max(least, (full * (2000 - al.mq)) \div 2000)

(***************************************************************************)
(* Circle holes                                                            *)
(***************************************************************************)
\* buildCirclePath / circleHolePath / buildCircleHole / addCircleHole of
\* part_001: j = seg down to 0, angle (j/seg) * 2*PI
buildCirclePath(radius, seg) ==
  [k \in 1..(seg + 1) |-> Vtx(0, 0, radius, Ang(4 * (seg - (k - 1)), 0, seg), NoAlpha)]

\* addCircleHole of part_000 and the inline hole of part_003: j = 0 up to seg
addCircleHole_p0(radius, seg) ==
  [k \in 1..(seg + 1) |-> Vtx(0, 0, radius, Ang(4 * (k - 1), 0, seg), NoAlpha)]


(***************************************************************************)
(* Slot contours.  Each builder returns the path it traces together with   *)
(* the quantities it derives: al (alpha), rInner, rOuter, rTip, halfW, and *)
(* the indices in the path of the landmarks it passes through.             *)
(***************************************************************************)
\* rInner + slotLength in every case: the automatic reach to the rim forgotten
rOuterOf_noAuto(o, rInner, rAuto) == rInner + Get(o, "slotLength", 0)

\* (options.slotLength && options.slotLength > 0) ? rInner + slotLength : rAuto
rOuterOf(o, rInner, rAuto) ==
  IF Has(o, "slotLength") /\ o.slotLength > 0 THEN rInner + o.slotLength ELSE rAuto

\* buildKeyholePath of src/src/caps.js:76
buildKeyholePath_c1(pp, vFrac, hR, o) ==
  LET theta == slotAngleOf(o)
      roll == Quarter(Get(o, "slotRoll", 0))
      width == Max(Mm(1) \div 2, Get(o, "slotWidth", Mm(8)))
      halfW == width \div 2
      overshoot == Get(o, "slotOvershoot", Mm(1))
      offset == Get(o, "slotOffset", 0)
      vAng == AngAdd(AngSub(theta, Quarter(1)), roll)
      rInner == Max(Mm(1) \div 10, hR + offset)
      sa == sinAlphaOf(halfW, rInner)
      al == Asin(sa[1], sa[2], FALSE)
      phi0 == AngAdd(theta, Quarter(1))
      phiR == AngSub(phi0, AlphaAng(al))
      phiL == AngAdd(phi0, AlphaAng(al))
      rAuto == Shrink(innerRadiusAt(pp, vFrac, theta))
      rOuter == rOuterOf(o, rInner, rAuto)
      rTip == rOuter + halfW + overshoot
      tip == Vtx(0, 0, rTip, theta, al)
      segBig == bigSegOf(al, 24, 96)
      path == <<Vtx(0, 0, rInner, phiR, al)>>                              \* (1) moveTo cR
              \o <<Vtx(tip.x, tip.y, halfW, vAng, al)>>                    \* (2) lineTo tipRight
              \o arcCW(tip.x, tip.y, halfW, vAng, AngAdd(vAng, Quarter(2)), 32, al)  \* (3)
              \o <<Vtx(0, 0, rInner, phiL, al)>>                           \* (4) lineTo cL
              \o arcCW(0, 0, rInner, phiL, phiR, segBig, al)               \* (5)
  IN [kind |-> "keyhole", path |-> path, al |-> al, theta |-> theta, halfW |-> halfW,
      rInner |-> rInner, rOuter |-> rOuter, rTip |-> rTip, circR |-> rInner,
      iR |-> 1, iTipR |-> 2, iTipL |-> 34, iL |-> 35]

\* buildKeyholePath of src/unnamed/part_002:63
buildKeyholePath_p2(pp, vFrac, hR, o) ==
  LET theta == slotAngleOf(o)
      width == Max(Mm(1) \div 2, Get(o, "slotWidth", Mm(8)))
      halfW == width \div 2
      overshoot == Get(o, "slotOvershoot", Mm(1))
      offset == Get(o, "slotOffset", 0)
      vDir == AngAdd(theta, Quarter(1))                  \* (vx, vy) = (-uy, ux)
      rAuto == Shrink(innerRadiusAt(pp, vFrac, theta))
      rInner == Max(Mm(1) \div 10, hR + offset)
      rOuter == rOuterOf(o, rInner, rAuto)
      rTip == rOuter + halfW + overshoot
      sa == sinAlphaOf(halfW, Max(Mm(1) \div 10, hR))
      al == Asin(sa[1], sa[2], FALSE)
      phiR == AngSub(theta, AlphaAng(al))
      phiL == AngAdd(theta, AlphaAng(al))
      tip == Vtx(0, 0, rTip, theta, al)
      bigSeg == bigSegOf(al, 24, 96)
      path == <<Vtx(0, 0, hR, phiR, al)>>
              \o <<Vtx(tip.x, tip.y, halfW, vDir, al)>>
              \o arcCW(tip.x, tip.y, halfW, AngSub(theta, Quarter(1)),
                       AngAdd(theta, Quarter(1)), 32, al)
              \o <<Vtx(0, 0, hR, phiL, al)>>
              \o arcCW(0, 0, hR, phiL, phiR, bigSeg, al)
  IN [kind |-> "keyhole", path |-> path, al |-> al, theta |-> theta, halfW |-> halfW,
      rInner |-> rInner, rOuter |-> rOuter, rTip |-> rTip, circR |-> hR,
      iR |-> 1, iTipR |-> 2, iTipL |-> 34, iL |-> 35]

\* addKeyholeHole of src/unnamed/part_001:89 (segCirc = 96, segSlot = 48)
addKeyholeHole_p1a(hR, rOuterRim, width, theta) ==
  LET halfW == width \div 2
      overshoot == (Mm(6)) \div 10
      vDir == AngAdd(theta, Quarter(1))
      sa == sinAlphaOf(halfW, hR)
      al == Asin(sa[1], sa[2], FALSE)
      phiR == AngSub(theta, AlphaAng(al))
      phiL == AngAdd(theta, AlphaAng(al))
      rOuterEnd == rOuterRim + halfW + overshoot
      pOuter == Vtx(0, 0, rOuterEnd, theta, al)
      n == bigSegOf(al, 16, 96)
      path == <<Vtx(0, 0, hR, phiR, al)>>
              \o arcPoints(0, 0, hR, phiR, AngSub(phiL, Quarter(4)), n, al)
              \o <<Vtx(pOuter.x, pOuter.y, halfW, AngAdd(vDir, Quarter(2)), al)>>  \* pOuter - v*halfW
              \o arcPoints(pOuter.x, pOuter.y, halfW, AngAdd(theta, Quarter(1)),
                           AngSub(theta, Quarter(1)), 48, al)
              \o <<Vtx(pOuter.x, pOuter.y, halfW, vDir, al)>>                      \* pOuter + v*halfW
              \o <<Vtx(0, 0, hR, phiR, al)>>
  IN [kind |-> "keyhole", path |-> path, al |-> al, theta |-> theta, halfW |-> halfW,
      rInner |-> hR, rOuter |-> rOuterRim, rTip |-> rOuterEnd, circR |-> hR,
      iR |-> n + 52, iTipR |-> n + 51, iTipL |-> n + 2, iL |-> n + 1]


\* the D-slot: dSlotPath of src/src/caps.js:289 (vAng = theta + PI/2 + roll +
\* mouth) and buildDSlot of src/unnamed/part_001:219 (vAng = theta + PI/2 +
\* roll + PI/2); they differ in vAng only
DSlot(pp, vFrac, hR, o, vAng) ==
  LET theta == slotAngleOf(o)
      width == Max(Mm(1) \div 2, Get(o, "slotWidth", Mm(8)))
      halfW == width \div 2
      overshoot == Get(o, "slotOvershoot", Mm(1))
      offset == Get(o, "slotOffset", 0)
      rInner == Max(Mm(1) \div 10, hR + offset)
      rAuto == Shrink(innerRadiusAt(pp, vFrac, theta))
      rOuter == rOuterOf(o, rInner, rAuto)
      rTip == rOuter + halfW + overshoot
      p0 == Vtx(0, 0, rInner, theta, NoAlpha)
      p1 == Vtx(0, 0, rTip, theta, NoAlpha)
      back == AngAdd(vAng, Quarter(2))
      iRv == Vtx(p0.x, p0.y, halfW, vAng, NoAlpha)
      path == <<iRv>>                                                   \* moveTo iR
              \o <<Vtx(p1.x, p1.y, halfW, vAng, NoAlpha)>>               \* lineTo oR
              \o arcCW(p1.x, p1.y, halfW, vAng, AngAdd(vAng, Quarter(2)), 32, NoAlpha)
              \o <<Vtx(p0.x, p0.y, halfW, back, NoAlpha)>>               \* lineTo iL
              \o <<iRv>>                                                 \* flat mouth
  IN [kind |-> "dslot", path |-> path, al |-> NoAlpha, theta |-> theta, halfW |-> halfW,
      rInner |-> rInner, rOuter |-> rOuter, rTip |-> rTip, circR |-> rInner,
      iR |-> 1, iTipR |-> 2, iTipL |-> 34, iL |-> 35]

dSlotPath_c2(pp, vFrac, hR, o) ==
  DSlot(pp, vFrac, hR, o,
        AngAdd(AngAdd(AngAdd(slotAngleOf(o), Quarter(1)),
                      Quarter(Get(o, "slotRoll", 0))), Quarter(Get(o, "slotMouth", 0))))

buildDSlot_p1b(pp, vFrac, hR, o) ==
  DSlot(pp, vFrac, hR, o,
        AngAdd(AngAdd(AngAdd(slotAngleOf(o), Quarter(1)),
                      Quarter(Get(o, "slotRoll", 0))), Quarter(1)))

\* addRadialSlot of src/unnamed/part_000:95 (seg = 48)
addRadialSlot_p0(rInner, rOuter, width, theta) ==
  LET halfW == width \div 2
      vDir == AngAdd(theta, Quarter(1))                  \* (vx, vy) = (-uy, ux)
      p0 == Vtx(0, 0, rInner, theta, NoAlpha)
      p1 == Vtx(0, 0, rOuter, theta, NoAlpha)
      lo == AngSub(theta, Quarter(1))
      hi == AngAdd(theta, Quarter(1))
      path == <<Vtx(p0.x, p0.y, halfW, vDir, NoAlpha)>>
              \o <<Vtx(p1.x, p1.y, halfW, vDir, NoAlpha)>>
              \o arcPoints(p1.x, p1.y, halfW, lo, hi, 48, NoAlpha)
              \o <<Vtx(p0.x, p0.y, halfW, AngAdd(vDir, Quarter(2)), NoAlpha)>>
              \o arcPoints(p0.x, p0.y, halfW, hi, lo, 48, NoAlpha)
  IN [kind |-> "pill", path |-> path, al |-> NoAlpha, theta |-> theta, halfW |-> halfW,
      rInner |-> rInner, rOuter |-> rOuter, rTip |-> rOuter, circR |-> rInner,
      iR |-> 1, iTipR |-> 2, iTipL |-> 50, iL |-> 51]

\* a hole that is no slot
CircleHole(path) ==
  [kind |-> "circle", path |-> path, al |-> NoAlpha, theta |-> Quarter(0), halfW |-> 0,
   rInner |-> 0, rOuter |-> 0, rTip |-> 0, circR |-> 0,
   iR |-> 0, iTipR |-> 0, iTipL |-> 0, iL |-> 0]

(***************************************************************************)
(* Inputs                                                                  *)
(***************************************************************************)
\* src/src/params.js:1-13 and two other settings of the sliders: a smooth
\* shade whose rim radius is 60 mm, a narrow one whose rim (20.3 mm) is
\* within 2 mm of the E27 hole, and one whose wall (5 mm) is thicker than
\* its rippled radius
ParamSets ==
  { [height |-> Mm(230), rbase |-> Mm(90), topscale |-> 70, waves |-> 18, amp |-> 22,
     twist |-> 420, ripdir |-> "vertical", res |-> "med", wallFixed |-> 14],
    [height |-> Mm(230), rbase |-> 1214, topscale |-> 100, waves |-> 7, amp |-> 0,
     twist |-> 0, ripdir |-> "horizontal", res |-> "low", wallFixed |-> 14],
    [height |-> Mm(120), rbase |-> Mm(21), topscale |-> 70, waves |-> 18, amp |-> 22,
     twist |-> 420, ripdir |-> "vertical", res |-> "high", wallFixed |-> 14],
    [height |-> Mm(230), rbase |-> Mm(3), topscale |-> 70, waves |-> 18, amp |-> 22,
     twist |-> 420, ripdir |-> "vertical", res |-> "low", wallFixed |-> Mm(5)] }

\* printer volume, in twentieths of a millimetre: 128 - safety and
\* 256 - safety
MaxHalf == Mm(128 - 6)
MaxHeight == Mm(256 - 6)

\* radialLimit = maxHalf / ((1 + max(0, amp)) * 1.18 * max(1, topscale)),
\* amp and topscale in hundredths
radialLimit(pp) ==
  (((MaxHalf * 100 * 100) \div ((100 + Max(0, pp.amp)) * 118)) * 100)
    \div Max(100, pp.topscale)

clampForBambu(pp) ==
  [pp EXCEPT !.rbase = IF pp.rbase > radialLimit(pp) THEN radialLimit(pp) ELSE pp.rbase,
             !.height = IF pp.height > MaxHeight THEN MaxHeight ELSE pp.height]

\* where the sliders of height, rbase and amp are moved to
SliderHeights == {Mm(230), Mm(300)}
SliderRbases == {Mm(60), Mm(90)}
SliderAmps == {22, 60}

\* params with the values of the sliders written into it
SliderParams ==
  [height : SliderHeights, rbase : SliderRbases, topscale : {70}, waves : {18},
   amp : SliderAmps, twist : {420}, ripdir : {"vertical"}, res : {"med"},
   wallFixed : {14}]

\* params as a rebuild of the page leaves it: clamped after the write of a
\* slider, and clamped again after amp has been written into that
UIParamSets ==
  {clampForBambu([q EXCEPT !.amp = a]) :
     q \in {clampForBambu(pp) : pp \in SliderParams}, a \in SliderAmps}

\* every shape a cap is built for
ShapeSets == ParamSets \cup UIParamSets

SlotAngles == {0, 3}
SlotRolls == {0, 1}
SlotWidths == {Mm(24), Mm(32), Mm(40), Mm(48)}
SlotLengths == {0, Mm(1), Mm(30)}
SlotOffsets == {0, Mm(5)}
SlotTilts == {0, 1}

\* {bottomSlot: false} (the top-cap call of main.js), {bottomSlot: true}
\* with every slot option left to its default, and the UI's full records:
\* every size of the slot at roll 0 and tilt 0, every orientation at one
\* size, and the thinnest slot (0.25 mm asked, 0.5 mm cut) with no overshoot
OptionSets ==
  { [bottomSlot |-> FALSE], [bottomSlot |-> TRUE] }
  \cup [bottomSlot : {TRUE}, slotAngle : SlotAngles, slotRoll : {0},
        slotWidth : SlotWidths, slotLength : SlotLengths, slotOvershoot : {Mm(1)},
        slotOffset : SlotOffsets, slotTilt : {0}, slotMouth : {0}]
  \cup [bottomSlot : {TRUE}, slotAngle : SlotAngles, slotRoll : SlotRolls,
        slotWidth : {Mm(24)}, slotLength : {0}, slotOvershoot : {Mm(1)},
        slotOffset : {0}, slotTilt : SlotTilts, slotMouth : {0}]
  \cup [bottomSlot : {TRUE}, slotAngle : SlotAngles, slotRoll : {0},
        slotWidth : {Mm(1) \div 4}, slotLength : {0}, slotOvershoot : {0},
        slotOffset : {0}, slotTilt : {0}, slotMouth : {0}]

\* height fractions in halves: bottom, middle, top
VFracs == {0, 1, 2}

(***************************************************************************)
(* Outer contour and extrusion                                             *)
(***************************************************************************)
\* the loop with u = i / radialSeg: the seam sampled at 2*PI + EPS
outerContour_noWrap(pp, vFrac) ==
  LET N == radialSeg(pp)
  IN [k \in 1..(N + 1) |->
        LET ang == [q |-> 4 * (k - 1), s |-> 0, d |-> N, e |-> 1, nan |-> FALSE]
        IN Vtx(0, 0, Shrink(innerRadiusAt(pp, vFrac, ang)), ang, NoAlpha)]

\* the loop of buildConformingCap: i = 0..radialSeg, u = (i % radialSeg) /
\* radialSeg, ang = u * 2*PI + EPS, r = innerRadiusAt(p, vFrac, ang) * 0.995
outerContour(pp, vFrac) ==
  LET N == radialSeg(pp)
  IN [k \in 1..(N + 1) |->
        LET ang == [q |-> 4 * ((k - 1) % N), s |-> 0, d |-> N, e |-> 1, nan |-> FALSE]
        IN Vtx(0, 0, Shrink(innerRadiusAt(pp, vFrac, ang)), ang, NoAlpha)]

\* outerContour is a pure function of (p, vFrac): its values on the inputs,
\* computed once
outerContourOf == [pp \in ShapeSets, v \in VFracs |-> outerContour(pp, v)]

\* options.bottomSlot alone, on either cap
wantSlot_anyCap(o, vFrac) == Truthy(o, "bottomSlot")

\* options.bottomSlot && vFrac === 0
wantSlot(o, vFrac) == Truthy(o, "bottomSlot") /\ vFrac = 0

\* (vFrac === 1) ? p.height : 0: the top cap placed above the shade
zOff_aboveTop(pp, vFrac, h) == IF vFrac = 2 THEN pp.height ELSE 0

\* (vFrac === 1) ? (p.height - capH) : 0     (vFrac in halves)
zOff(pp, vFrac, h) == IF vFrac = 2 THEN pp.height - h ELSE 0

\* new THREE.ExtrudeGeometry(shape, {depth: capH, ...}) then translate(0, 0,
\* dz): the solid over the shape with its holes, between z = dz and dz + depth
extrude(outer, holes, depth, dz) ==
  [outer |-> outer, holes |-> holes, zMin |-> dz, zMax |-> dz + depth]

NoCap ==
  [ver |-> "none", vFrac |-> 0, threw |-> FALSE, slotBuilder |-> FALSE,
   strategy |-> "none", outer |-> <<>>, holes |-> <<>>, cutters |-> <<>>,
   zMin |-> 0, zMax |-> 0]

\* the value a build leaves: the geometry returned, how it was made, and
\* whether a slot builder was called
Cap(ver, vFrac, geom, strategy, cutters, slotBuilder) ==
  [ver |-> ver, vFrac |-> vFrac, threw |-> FALSE, slotBuilder |-> slotBuilder,
   strategy |-> strategy, outer |-> geom.outer, holes |-> geom.holes,
   cutters |-> cutters, zMin |-> geom.zMin, zMax |-> geom.zMax]


(***************************************************************************)
(* CSG cutters (src/src/caps.js, second and third revision)                *)
(***************************************************************************)
\* makeTiltedCapsuleCutter of src/src/caps.js:341: the padded capsule mesh
makeTiltedCapsuleCutter_c2(pp, vFrac, hR, h, o) ==
  LET width == Max(Mm(1) \div 2, Get(o, "slotWidth", Mm(8)))
      halfW == width \div 2
      rInner == Max(Mm(1) \div 10, hR + Get(o, "slotOffset", 0))
      rAuto == Shrink(innerRadiusAt(pp, vFrac, slotAngleOf(o)))
      rOuter == rOuterOf(o, rInner, rAuto)
  IN [defined |-> TRUE, kind |-> "capsule", halfW |-> halfW, rInner |-> rInner,
      rTip |-> rOuter + halfW + Get(o, "slotOvershoot", Mm(1)),
      tilt |-> Get(o, "slotTilt", 0)]

\* makeCapsuleCutter3D of src/src/caps.js:539: the body builds the padded
\* capsule in `cutter` and ends at line 604 without a return statement, so
\* the caller receives undefined
makeCapsuleCutter3D_c3(pp, vFrac, hR, h, o) ==
  [defined |-> FALSE, kind |-> "capsule", halfW |-> 0, rInner |-> 0, rTip |-> 0,
   tilt |-> Get(o, "slotTilt", 0)]

\* the E27 cylinder of src/src/caps.js:509-513
e27Cutter(pp, hR) ==
  [defined |-> TRUE, kind |-> "cylinder", halfW |-> hR, rInner |-> 0, rTip |-> 0, tilt |-> 0]

(***************************************************************************)
(* buildSlotDebug                                                          *)
(***************************************************************************)
\* vFrac !== 0 forgotten in the guard
debugWanted_anyCap(o, vFrac) == Truthy(o, "bottomSlot")

\* the negation of the guard: !(options.bottomSlot) || vFrac !== 0
debugWanted(o, vFrac) == ~(~Truthy(o, "bottomSlot") \/ vFrac # 0)

\* line([[ax, ay, 0], [bx, by, 0]], color) and circle([cx, cy, 0], r, seg, color)
GuideLine(a, b) == [kind |-> "line", a |-> a, b |-> b, r |-> 0, seg |-> 1]
GuideCircle(c, r, seg) == [kind |-> "circle", a |-> c, b |-> c, r |-> r, seg |-> seg]

NoDebug == [called |-> FALSE, vFrac |-> 0, o |-> [bottomSlot |-> FALSE],
            null |-> TRUE, items |-> <<>>]
DebugNull(vFrac, o) == [called |-> TRUE, vFrac |-> vFrac, o |-> o, null |-> TRUE, items |-> <<>>]

\* what the five revisions share: centerline, the two width edges, the tip
\* circle and the rim marker (radius rimR, rimSeg steps), then the revision's
\* own guides
SlotDebug(pp, vFrac, hR, o, vAng, rimR, rimSeg, mouthChord, tangencyR, tangencySeg) ==
  IF ~debugWanted(o, vFrac) THEN DebugNull(vFrac, o)
  ELSE
  LET theta == slotAngleOf(o)
      width == Max(Mm(1) \div 2, Get(o, "slotWidth", Mm(8)))
      halfW == width \div 2
      overshoot == Get(o, "slotOvershoot", Mm(1))
      offset == Get(o, "slotOffset", 0)
      rInner == Max(Mm(1) \div 10, hR + offset)
      rAuto == Shrink(innerRadiusAt(pp, vFrac, theta))
      rOuter == rOuterOf(o, rInner, rAuto)
      rTip == rOuter + halfW + overshoot
      mouth == Vtx(0, 0, rInner, theta, NoAlpha)
      tip == Vtx(0, 0, rTip, theta, NoAlpha)
      back == AngAdd(vAng, Quarter(2))
      tr == IF tangencyR = 0 THEN rInner ELSE tangencyR
      sa == sinAlphaOf(halfW, IF tangencyR = 0 THEN rInner ELSE Max(Mm(1) \div 10, hR))
      al == Asin(sa[1], sa[2], FALSE)
  IN [called |-> TRUE, vFrac |-> vFrac, o |-> o, null |-> FALSE,
      items |->
        <<GuideLine(mouth, tip),
          GuideLine(Vtx(mouth.x, mouth.y, halfW, vAng, NoAlpha),
                    Vtx(tip.x, tip.y, halfW, vAng, NoAlpha)),
          GuideLine(Vtx(mouth.x, mouth.y, halfW, back, NoAlpha),
                    Vtx(tip.x, tip.y, halfW, back, NoAlpha)),
          GuideCircle(tip, halfW, 32),
          GuideCircle(Vtx(0, 0, rAuto, theta, NoAlpha), rimR, rimSeg)>>
        \o (IF mouthChord
            THEN <<GuideLine(Vtx(mouth.x, mouth.y, halfW, vAng, NoAlpha),
                             Vtx(mouth.x, mouth.y, halfW, back, NoAlpha))>>
            ELSE <<>>)
        \o (IF tangencySeg > 0
            THEN <<GuideCircle(Vtx(0, 0, tr, AngSub(theta, AlphaAng(al)), al), Mm(1), tangencySeg),
                   GuideCircle(Vtx(0, 0, tr, AngAdd(theta, AlphaAng(al)), al), Mm(1), tangencySeg)>>
            ELSE <<>>)]

\* src/src/caps.js:149: vAng = theta - PI/2 + roll, rim marker 1.3 mm,
\* tangency markers on the circle of radius rInner
buildSlotDebug_c1(pp, vFrac, hR, o) ==
  SlotDebug(pp, vFrac, hR, o,
            AngAdd(AngSub(slotAngleOf(o), Quarter(1)),
                   Quarter(Get(o, "slotRoll", 0))),
            26, 24, FALSE, 0, 12)

\* src/src/caps.js:404: vAng = theta + PI/2 + roll + mouth, flat mouth chord
buildSlotDebug_c2(pp, vFrac, hR, o) ==
  SlotDebug(pp, vFrac, hR, o,
            AngAdd(AngAdd(AngAdd(slotAngleOf(o), Quarter(1)),
                          Quarter(Get(o, "slotRoll", 0))), Quarter(Get(o, "slotMouth", 0))),
            24, 20, TRUE, 0, 0)

\* src/src/caps.js:607: as line 404 without the mouth chord
buildSlotDebug_c3(pp, vFrac, hR, o) ==
  SlotDebug(pp, vFrac, hR, o,
            AngAdd(AngAdd(AngAdd(slotAngleOf(o), Quarter(1)),
                          Quarter(Get(o, "slotRoll", 0))), Quarter(Get(o, "slotMouth", 0))),
            24, 20, FALSE, 0, 0)

\* src/unnamed/part_001:275: vAng = theta + PI/2 + roll + PI/2
buildSlotDebug_p1b(pp, vFrac, hR, o) ==
  SlotDebug(pp, vFrac, hR, o,
            AngAdd(AngAdd(AngAdd(slotAngleOf(o), Quarter(1)),
                          Quarter(Get(o, "slotRoll", 0))), Quarter(1)),
            24, 24, TRUE, 0, 0)

\* src/unnamed/part_002:137: (vx, vy) = (-uy, ux), tangency markers on the
\* circle of radius holeR
buildSlotDebug_p2(pp, vFrac, hR, o) ==
  SlotDebug(pp, vFrac, hR, o, AngAdd(slotAngleOf(o), Quarter(1)),
            24, 20, FALSE, hR, 16)

(***************************************************************************)
(* buildConformingCap, one definition per revision                         *)
(***************************************************************************)
\* src/src/caps.js:19
buildConformingCap_c1(pp, vFrac, h, hR, o) ==
  LET slot == wantSlot(o, vFrac)
      keyhole == IF slot THEN buildKeyholePath_c1(pp, vFrac, hR, o)
                 ELSE CircleHole(buildCirclePath(hR, 96))
  IN Cap("c1", vFrac, extrude(outerContourOf[pp, vFrac], <<keyhole>>, h, zOff(pp, vFrac, h)),
         "extrude", <<>>, slot)

\* the revision of line 225 without its tilt branch: the 2D path in every case
buildConformingCap_c2_flat(pp, vFrac, h, hR, o) ==
  LET slot == wantSlot(o, vFrac)
      holes == <<CircleHole(buildCirclePath(hR, 96))>>
               \o (IF slot THEN <<dSlotPath_c2(pp, vFrac, hR, o)>> ELSE <<>>)
  IN Cap("c2", vFrac, extrude(outerContourOf[pp, vFrac], holes, h, zOff(pp, vFrac, h)),
         "extrude", <<>>, slot)

\* src/src/caps.js:225
buildConformingCap_c2(pp, vFrac, h, hR, o) ==
  LET slot == wantSlot(o, vFrac)
      holes == <<CircleHole(buildCirclePath(hR, 96))>>
               \o (IF slot THEN <<dSlotPath_c2(pp, vFrac, hR, o)>> ELSE <<>>)
      capGeom == extrude(outerContourOf[pp, vFrac], holes, h, zOff(pp, vFrac, h))
  IN IF slot /\ Get(o, "slotTilt", 0) # 0
     THEN Cap("c2", vFrac, capGeom, "csg",
              <<makeTiltedCapsuleCutter_c2(pp, 0, hR, h, o)>>, slot)
     ELSE Cap("c2", vFrac, capGeom, "extrude", <<>>, slot)

\* src/src/caps.js:481
buildConformingCap_c3(pp, vFrac, h, hR, o) ==
  LET capGeom == extrude(outerContourOf[pp, vFrac], <<>>, h, zOff(pp, vFrac, h))
      afterE27 == Cap("c3", vFrac, capGeom, "csg", <<e27Cutter(pp, hR)>>, FALSE)
      slotMesh == makeCapsuleCutter3D_c3(pp, 0, hR, h, o)
  IN IF ~wantSlot(o, vFrac) THEN afterE27
     ELSE IF ~slotMesh.defined
     THEN \* CSG.fromMesh(undefined) throws; nothing is returned
          [NoCap EXCEPT !.ver = "c3", !.vFrac = vFrac, !.threw = TRUE,
                        !.slotBuilder = TRUE, !.strategy = "csg"]
     ELSE Cap("c3", vFrac, capGeom, "csg", <<e27Cutter(pp, hR), slotMesh>>, TRUE)

\* src/unnamed/part_000:21
buildConformingCap_p0(pp, vFrac, h, hR, o) ==
  LET slot == wantSlot(o, vFrac)
      slotAngle == slotAngleOf(o)
      slotWidth == Max(Mm(6), GetOr(o, "slotWidth", Mm(8)))
      rInner == hR
      rOuter == Shrink(innerRadiusAt(pp, vFrac, slotAngle))
      \* NaN > rInner + 2 is false
      cut == slot /\ ~slotAngle.nan /\ rOuter > rInner + Mm(2)
      holes == <<CircleHole(addCircleHole_p0(hR, 96))>>
               \o (IF cut THEN <<addRadialSlot_p0(rInner, rOuter, slotWidth, slotAngle)>>
                   ELSE <<>>)
  IN Cap("p0", vFrac, extrude(outerContourOf[pp, vFrac], holes, h, zOff(pp, vFrac, h)),
         "extrude", <<>>, cut)

\* src/unnamed/part_001:18
buildConformingCap_p1a(pp, vFrac, h, hR, o) ==
  LET slot == wantSlot(o, vFrac)
      theta == slotAngleOf(o)
      width == Max(Mm(6), GetOr(o, "slotWidth", Mm(8)))
      rOuterRim == Shrink(innerRadiusAt(pp, vFrac, theta))
      \* NaN > holeR + 2 is false
      cut == slot /\ ~theta.nan /\ rOuterRim > hR + Mm(2)
      holes == IF cut THEN <<addKeyholeHole_p1a(hR, rOuterRim, width, theta)>>
               ELSE <<CircleHole(buildCirclePath(hR, 96))>>
  IN Cap("p1a", vFrac, extrude(outerContourOf[pp, vFrac], holes, h, zOff(pp, vFrac, h)),
         "extrude", <<>>, cut)

\* src/unnamed/part_001:157
buildConformingCap_p1b(pp, vFrac, h, hR, o) ==
  LET slot == wantSlot(o, vFrac)
      holes == <<CircleHole(buildCirclePath(hR, 96))>>
               \o (IF slot THEN <<buildDSlot_p1b(pp, vFrac, hR, o)>> ELSE <<>>)
  IN Cap("p1b", vFrac, extrude(outerContourOf[pp, vFrac], holes, h, zOff(pp, vFrac, h)),
         "extrude", <<>>, slot)

\* src/unnamed/part_002:12
buildConformingCap_p2(pp, vFrac, h, hR, o) ==
  LET slot == wantSlot(o, vFrac)
      holePath == IF slot THEN buildKeyholePath_p2(pp, vFrac, hR, o)
                  ELSE CircleHole(buildCirclePath(hR, 96))
  IN Cap("p2", vFrac, extrude(outerContourOf[pp, vFrac], <<holePath>>, h, zOff(pp, vFrac, h)),
         "extrude", <<>>, slot)

\* src/unnamed/part_003:11 (no options parameter)
buildConformingCap_p3(pp, vFrac, h, hR) ==
  Cap("p3", vFrac,
      extrude(outerContourOf[pp, vFrac], <<CircleHole(addCircleHole_p0(hR, 96))>>, h,
              zOff(pp, vFrac, h)),
      "extrude", <<>>, FALSE)

\* the page before main.js has run: nothing in the scene, group, mesh and
\* capTopMesh undefined (0)
NoApp == [page |-> "none", mount |-> "standing", slotDebug |-> FALSE, gen |-> 0,
          scene |-> {}, group |-> 0, mesh |-> 0, capTopMesh |-> 0,
          live |-> {}, threw |-> FALSE]

\* the controls before the page has bound them
NoUi == [height |-> 0, rbase |-> 0, amp |-> 0, mount |-> "standing", slotOffset |-> 0]

\* no call of arcCW made yet
NoArc == [called |-> FALSE, aStart |-> Quarter(0), aEnd |-> Quarter(0), seg |-> 0,
          pts |-> <<>>]

\* the arguments of a call: (p, vFrac, capH, holeR, options)
NoInputs == [p |-> [res |-> "none"], vFrac |-> 0, capH |-> 0, holeR |-> 0,
             options |-> [bottomSlot |-> FALSE]]
Inputs(pp, vFrac, h, hR, o) ==
  [p |-> pp, vFrac |-> vFrac, capH |-> h, holeR |-> hR, options |-> o]
NoFirst == [set |-> FALSE, in |-> NoInputs, out |-> NoCap]

Init ==
  /\ p \in ParamSets
  /\ options \in OptionSets
  /\ holeR = Mm(20)
  /\ capH \in {Mm(4), Mm(5)}
  /\ cap = NoCap
  /\ rev = "any" /\ calls = 0 /\ last = "none"
  /\ capIn = NoInputs /\ first = NoFirst /\ dbg = NoDebug
  /\ app = NoApp /\ ui = NoUi /\ arc = NoArc

(***************************************************************************)
(* One call of buildConformingCap on the inputs                            *)
(***************************************************************************)
Call_c1 ==
  /\ cap.ver = "none"
  /\ \E v \in VFracs : cap' = buildConformingCap_c1(p, v, capH, holeR, options)
  /\ UNCHANGED <<p, options, holeR, capH, rev, calls, last, capIn, first, dbg, app, ui, arc>>

Call_c2 ==
  /\ cap.ver = "none"
  /\ \E v \in VFracs : cap' = buildConformingCap_c2(p, v, capH, holeR, options)
  /\ UNCHANGED <<p, options, holeR, capH, rev, calls, last, capIn, first, dbg, app, ui, arc>>

Call_c3 ==
  /\ cap.ver = "none"
  /\ \E v \in VFracs : cap' = buildConformingCap_c3(p, v, capH, holeR, options)
  /\ UNCHANGED <<p, options, holeR, capH, rev, calls, last, capIn, first, dbg, app, ui, arc>>

Call_p0 ==
  /\ cap.ver = "none"
  /\ \E v \in VFracs : cap' = buildConformingCap_p0(p, v, capH, holeR, options)
  /\ UNCHANGED <<p, options, holeR, capH, rev, calls, last, capIn, first, dbg, app, ui, arc>>

Call_p1a ==
  /\ cap.ver = "none"
  /\ \E v \in VFracs : cap' = buildConformingCap_p1a(p, v, capH, holeR, options)
  /\ UNCHANGED <<p, options, holeR, capH, rev, calls, last, capIn, first, dbg, app, ui, arc>>

Call_p1b ==
  /\ cap.ver = "none"
  /\ \E v \in VFracs : cap' = buildConformingCap_p1b(p, v, capH, holeR, options)
  /\ UNCHANGED <<p, options, holeR, capH, rev, calls, last, capIn, first, dbg, app, ui, arc>>

Call_p2 ==
  /\ cap.ver = "none"
  /\ \E v \in VFracs : cap' = buildConformingCap_p2(p, v, capH, holeR, options)
  /\ UNCHANGED <<p, options, holeR, capH, rev, calls, last, capIn, first, dbg, app, ui, arc>>

Call_p3 ==
  /\ cap.ver = "none"
  /\ \E v \in VFracs : cap' = buildConformingCap_p3(p, v, capH, holeR)
  /\ UNCHANGED <<p, options, holeR, capH, rev, calls, last, capIn, first, dbg, app, ui, arc>>

Next ==
  \/ Call_c1 \/ Call_c2 \/ Call_c3 \/ Call_p0
  \/ Call_p1a \/ Call_p1b \/ Call_p2 \/ Call_p3

Spec == Init /\ [][Next]_vars

(***************************************************************************)
(* One call of buildConformingCap with a slot angle that is not a number   *)
(***************************************************************************)
NaNOptionSets ==
  { [bottomSlot |-> TRUE, slotAngle |-> NaN] }
  \cup [bottomSlot : {TRUE}, slotAngle : {NaN}, slotRoll : SlotRolls,
        slotWidth : {Mm(8), Mm(24)}, slotLength : {0, Mm(30)}, slotOvershoot : {Mm(1)},
        slotOffset : {0}, slotTilt : {0}, slotMouth : {0}]

InitNaN ==
  /\ p \in ParamSets
  /\ options \in NaNOptionSets
  /\ holeR = Mm(20)
  /\ capH = Mm(5)
  /\ cap = NoCap
  /\ rev = "any" /\ calls = 0 /\ last = "none"
  /\ capIn = NoInputs /\ first = NoFirst /\ dbg = NoDebug
  /\ app = NoApp /\ ui = NoUi /\ arc = NoArc

SpecNaN == InitNaN /\ [][Next]_vars

(***************************************************************************)
(* One call of arcCW on start and end angles of every relative position    *)
(***************************************************************************)
\* the end angle lies up to this many quarter turns before or after the start
MaxQuarters == 9

\* alpha of the default slot: asin(4 / 20)
ArcAlpha == Asin(Mm(4), Mm(20), FALSE)
ArcSegs == {1, 2, 3, 32}
ArcStarts == {Ang(q, s, 1) : q \in 0..3, s \in {0, 1}}
ArcTurns == {Ang(k, s, 1) : k \in (-MaxQuarters)..MaxQuarters, s \in {-2, 0, 2}}

InitArc ==
  /\ p \in {pp \in ParamSets : pp.res = "med"}
  /\ options = [bottomSlot |-> FALSE]
  /\ holeR = Mm(20)
  /\ capH = Mm(5)
  /\ cap = NoCap
  /\ rev = "any" /\ calls = 0 /\ last = "none"
  /\ capIn = NoInputs /\ first = NoFirst /\ dbg = NoDebug
  /\ app = NoApp /\ ui = NoUi
  /\ \E a \in ArcStarts, t \in ArcTurns, n \in ArcSegs :
       arc = [NoArc EXCEPT !.aStart = a, !.aEnd = AngAdd(a, t), !.seg = n]

\* arcCW(path, 0, 0, holeR, aStart, aEnd, seg)
CallArc ==
  /\ ~arc.called
  /\ arc' = [arc EXCEPT !.called = TRUE,
                        !.pts = arcCW(0, 0, holeR, arc.aStart, arc.aEnd, arc.seg, ArcAlpha)]
  /\ UNCHANGED <<p, options, holeR, capH, cap, rev, calls, last, capIn, first, dbg, app, ui>>

NextArc == CallArc

SpecArc == InitArc /\ [][NextArc]_vars

(***************************************************************************)
(* A page that has loaded one revision of caps.js and calls it repeatedly, *)
(* the user editing the parameters and the slot options in between         *)
(***************************************************************************)
Revisions == {"c1", "c2", "c3", "p0", "p1a", "p1b", "p2", "p3"}
\* the revisions that export buildSlotDebug
DebugRevisions == {"c1", "c2", "c3", "p1b", "p2"}

buildConformingCap(ver, pp, vFrac, h, hR, o) ==
  CASE ver = "c1" -> buildConformingCap_c1(pp, vFrac, h, hR, o)
    [] ver = "c2" -> buildConformingCap_c2(pp, vFrac, h, hR, o)
    [] ver = "c3" -> buildConformingCap_c3(pp, vFrac, h, hR, o)
    [] ver = "p0" -> buildConformingCap_p0(pp, vFrac, h, hR, o)
    [] ver = "p1a" -> buildConformingCap_p1a(pp, vFrac, h, hR, o)
    [] ver = "p1b" -> buildConformingCap_p1b(pp, vFrac, h, hR, o)
    [] ver = "p2" -> buildConformingCap_p2(pp, vFrac, h, hR, o)
    [] ver = "p3" -> buildConformingCap_p3(pp, vFrac, h, hR)

buildSlotDebug(ver, pp, vFrac, hR, o) ==
  CASE ver = "c1" -> buildSlotDebug_c1(pp, vFrac, hR, o)
    [] ver = "c2" -> buildSlotDebug_c2(pp, vFrac, hR, o)
    [] ver = "c3" -> buildSlotDebug_c3(pp, vFrac, hR, o)
    [] ver = "p1b" -> buildSlotDebug_p1b(pp, vFrac, hR, o)
    [] ver = "p2" -> buildSlotDebug_p2(pp, vFrac, hR, o)

\* calls and edits in one run of the page
MaxCalls == 4

CallParams == {pp \in ParamSets : pp.res \in {"low", "med"} /\ pp.wallFixed = 14}
CallOptions ==
  { [bottomSlot |-> FALSE], [bottomSlot |-> TRUE],
    [bottomSlot |-> TRUE, slotAngle |-> 3, slotRoll |-> 0, slotWidth |-> Mm(24),
     slotLength |-> 0, slotOvershoot |-> Mm(1), slotOffset |-> Mm(5), slotTilt |-> 0,
     slotMouth |-> 0] }

InitCalls ==
  /\ p \in CallParams
  /\ options \in CallOptions
  /\ holeR = Mm(20)
  /\ capH = Mm(5)
  /\ cap = NoCap
  /\ rev \in Revisions
  /\ calls = 0 /\ last = "none"
  /\ capIn = NoInputs /\ first = NoFirst /\ dbg = NoDebug
  /\ app = NoApp /\ ui = NoUi /\ arc = NoArc

\* a cap whose shape is kept between calls: each call pushes its holes onto
\* those of the call before
pushHoles(before, c) == [c EXCEPT !.holes = before \o c.holes]

Build_sharedShape ==
  /\ calls < MaxCalls
  /\ \E v \in {0, 2} :
       /\ cap' = pushHoles(cap.holes, buildConformingCap(rev, p, v, capH, holeR, options))
       /\ capIn' = Inputs(p, v, capH, holeR, options)
       /\ first' = IF first.set THEN first
                   ELSE [set |-> TRUE, in |-> capIn', out |-> cap']
  /\ calls' = calls + 1 /\ last' = "build"
  /\ UNCHANGED <<p, options, holeR, capH, rev, dbg, app, ui, arc>>

\* buildConformingCap(params, vFrac, capH, 20, options)
Build ==
  /\ calls < MaxCalls
  /\ \E v \in {0, 2} :
       /\ cap' = buildConformingCap(rev, p, v, capH, holeR, options)
       /\ capIn' = Inputs(p, v, capH, holeR, options)
       /\ first' = IF first.set THEN first
                   ELSE [set |-> TRUE, in |-> capIn', out |-> cap']
  /\ calls' = calls + 1 /\ last' = "build"
  /\ UNCHANGED <<p, options, holeR, capH, rev, dbg, app, ui, arc>>

\* a buildSlotDebug that writes the options it has defaulted back into its
\* argument
Debug_writesOptions ==
  /\ calls < MaxCalls
  /\ rev \in DebugRevisions
  /\ \E v \in {0, 2} : dbg' = buildSlotDebug(rev, p, v, holeR, options)
  /\ options' = [bottomSlot |-> Truthy(options, "bottomSlot"),
                 slotWidth |-> Max(Mm(1) \div 2, Get(options, "slotWidth", Mm(8)))]
  /\ calls' = calls + 1 /\ last' = "debug"
  /\ UNCHANGED <<p, holeR, capH, cap, rev, capIn, first, app, ui, arc>>

\* buildSlotDebug(params, vFrac, 20, options)
Debug ==
  /\ calls < MaxCalls
  /\ rev \in DebugRevisions
  /\ \E v \in {0, 2} : dbg' = buildSlotDebug(rev, p, v, holeR, options)
  /\ calls' = calls + 1 /\ last' = "debug"
  /\ UNCHANGED <<p, options, holeR, capH, cap, rev, capIn, first, app, ui, arc>>

\* a slider or a select of the shape moved
EditParams ==
  /\ calls < MaxCalls
  /\ p' \in CallParams \ {p}
  /\ calls' = calls + 1 /\ last' = "edit"
  /\ UNCHANGED <<options, holeR, capH, cap, rev, capIn, first, dbg, app, ui, arc>>

\* a slot control moved
EditOptions ==
  /\ calls < MaxCalls
  /\ options' \in CallOptions \ {options}
  /\ calls' = calls + 1 /\ last' = "edit"
  /\ UNCHANGED <<p, holeR, capH, cap, rev, capIn, first, dbg, app, ui, arc>>

NextCalls == Build \/ Debug \/ EditParams \/ EditOptions

SpecCalls == InitCalls /\ [][NextCalls]_vars

(***************************************************************************)
(* Geometry of the emitted contours, for the properties                    *)
(***************************************************************************)
Built == cap.ver # "none"
Returned == Built /\ ~cap.threw
SlotRequested == Truthy(options, "bottomSlot")

\* the width the slot builders work with, Math.max(0.5, options.slotWidth ?? 8)
SlotWidth == Max(Mm(1) \div 2, Get(options, "slotWidth", Mm(8)))

HoleSet == {cap.holes[i] : i \in 1..Len(cap.holes)}
Keyholes == {h \in HoleSet : h.kind = "keyhole"}

NoNaN(path) == \A i \in 1..Len(path) : ~path[i].nan

\* a full circle of seg steps of equal size around the origin at radius R
IsPlainCircle(path, R, seg) ==
  /\ Len(path) = seg + 1
  /\ \A i \in 1..Len(path) :
       /\ path[i].cx = 0 /\ path[i].cy = 0 /\ path[i].r = R
       /\ path[i].a.s = 0 /\ path[i].a.d = seg /\ ~path[i].nan
  /\ \/ \A i \in 1..seg : path[i + 1].a.q - path[i].a.q = 4
     \/ \A i \in 1..seg : path[i + 1].a.q - path[i].a.q = -4

\* the vertices that have coordinates, in path order
ExactPts(path) == SelectSeq(path, LAMBDA v : v.exact)

\* twice the signed area of the closed polygon through pts (shoelace)
RECURSIVE Shoelace(_, _)
Shoelace(pts, i) ==
  IF i > Len(pts) THEN 0
  ELSE LET a == pts[i]
           b == pts[IF i = Len(pts) THEN 1 ELSE i + 1]
       IN a.x * b.y - b.x * a.y + Shoelace(pts, i + 1)

\* +1 counterclockwise, -1 clockwise: the sign of the area of the polygon
\* through the vertices of the contour that have coordinates
Winding(path) == Sign(Shoelace(ExactPts(path), 1))

Cross(o, a, b) == (a.x - o.x) * (b.y - o.y) - (a.y - o.y) * (b.x - o.x)
OnSeg(a, b, c) ==
  /\ Cross(a, b, c) = 0
  /\ Min(a.x, b.x) <= c.x /\ c.x <= Max(a.x, b.x)
  /\ Min(a.y, b.y) <= c.y /\ c.y <= Max(a.y, b.y)

\* the closed segments ab and cd share a point
SegIntersect(a, b, c, d) ==
  \/ /\ Sign(Cross(c, d, a)) * Sign(Cross(c, d, b)) < 0
     /\ Sign(Cross(a, b, c)) * Sign(Cross(a, b, d)) < 0
  \/ OnSeg(c, d, a) \/ OnSeg(c, d, b) \/ OnSeg(a, b, c) \/ OnSeg(a, b, d)

\* the edges of the emitted polygon both of whose ends have coordinates:
\* i stands for the edge from path[i] to path[i+1]
ExactEdges(path) == {i \in 1..(Len(path) - 1) : path[i].exact /\ path[i + 1].exact}

\* two edges of the polygon that are not neighbours and yet share a point
HasCrossing(path) ==
  \E i, j \in ExactEdges(path) :
    /\ i + 1 < j
    /\ ~(i = 1 /\ j = Len(path) - 1)       \* neighbours through the closing point
    /\ SegIntersect(path[i], path[i + 1], path[j], path[j + 1])

\* which side of the centerline (direction theta through the origin) v is on
Side(h, v) ==
  LET u == UnitVec(h.theta, NoAlpha) IN Sign(u[1] * v.y - u[2] * v.x)


(***************************************************************************)
(* Properties                                                              *)
(***************************************************************************)

\* C1: a cap built at vFrac /= 0 (the top cap in particular) has the plain
\* circle of radius holeR as its hole whatever the slot options say, and no
\* slot or keyhole builder was called for it.  In the CSG revision the hole
\* is the E27 cylinder of radius holeR and no capsule is cut.
C1_TopCapPlainCircle ==
  (Built /\ cap.vFrac # 0) =>
    /\ ~cap.threw
    /\ ~cap.slotBuilder
    /\ IF cap.strategy = "csg"
       THEN /\ cap.holes = <<>>
            /\ Len(cap.cutters) = 1
            /\ cap.cutters[1].kind = "cylinder" /\ cap.cutters[1].halfW = holeR
       ELSE /\ Len(cap.holes) = 1
            /\ cap.holes[1].kind = "circle"
            /\ IsPlainCircle(cap.holes[1].path, holeR, 96)
            /\ cap.cutters = <<>>

C1_Witness ==
  /\ cap.ver = "c1" /\ cap.vFrac = 2
  /\ SlotRequested /\ Has(options, "slotWidth") /\ options.slotWidth = Mm(40)
  /\ Len(cap.holes) = 1 /\ IsPlainCircle(cap.holes[1].path, holeR, 96)

\* C2: the solid of the bottom cap (vFrac = 0) lies between z = 0 and
\* z = capH, that of the top cap (vFrac = 1) between z = height - capH and
\* z = height.
C2_ZSpan ==
  Returned =>
    /\ cap.vFrac = 0 => (cap.zMin = 0 /\ cap.zMax = capH)
    /\ cap.vFrac = 2 => (cap.zMin = p.height - capH /\ cap.zMax = p.height)

C2_Witness ==
  /\ Returned /\ cap.vFrac = 2
  /\ p.height = Mm(230) /\ capH = Mm(5)
  /\ cap.zMin = Mm(225) /\ cap.zMax = Mm(230)

\* C3: the outer contour of the emitted shape is counterclockwise and every
\* hole contour is clockwise.  The sense of a circular hole is exact in the
\* model, so the hole part is stated of the circular holes.
C3_Winding ==
  Returned =>
    /\ Winding(cap.outer) = 1
    /\ \A h \in HoleSet : h.kind = "circle" => Winding(h.path) = -1

\* C4: with the slot enabled on the bottom cap the extruded polygon has
\* exactly one hole contour, and where a slot was cut it is that one contour
\* which holds the circle and the slot: never two loops.
C4_OneMergedHole ==
  (Returned /\ SlotRequested /\ cap.vFrac = 0) =>
    /\ Len(cap.holes) = 1
    /\ cap.slotBuilder => cap.holes[1].kind = "keyhole"

\* C5: a keyhole of width < 2 * holeRadius is a simple polygon (no two of its
\* edges that are not neighbours share a point), and each straight edge joins
\* a tangency point and a tip-edge point on the same side of the centerline.
C5_KeyholeSimple ==
  Returned =>
    \A h \in Keyholes :
      2 * h.halfW < 2 * holeR =>
        /\ ~HasCrossing(h.path)
        /\ Side(h, h.path[h.iR]) # 0
        /\ Side(h, h.path[h.iR]) = Side(h, h.path[h.iTipR])
        /\ Side(h, h.path[h.iL]) # 0
        /\ Side(h, h.path[h.iL]) = Side(h, h.path[h.iTipL])

\* C6: a slot is never cut with rOuter <= rInner + 2 mm: the cap then has
\* the plain circular hole and the builder does not throw.
C6_RimGuard ==
  (Built /\ SlotRequested /\ cap.vFrac = 0 /\ cap.strategy # "csg") =>
    /\ ~cap.threw
    /\ \E h \in HoleSet : h.kind = "circle" \/ h.kind = "keyhole"
    /\ \A h \in HoleSet : h.kind # "circle" => h.rOuter > h.rInner + Mm(2)

\* C7: when the slot width reaches or exceeds 2 * holeRadius the cap has the
\* plain circular hole instead of a keyhole; nothing is thrown and no
\* coordinate is NaN.
C7_WidthFallback ==
  (Built /\ SlotRequested /\ cap.vFrac = 0 /\ cap.strategy # "csg"
     /\ SlotWidth >= 2 * holeR) =>
    /\ ~cap.threw
    /\ Len(cap.holes) = 1
    /\ cap.holes[1].kind = "circle"
    /\ IsPlainCircle(cap.holes[1].path, holeR, 96)

\* C8: in every keyhole the argument of asin is within [0, 1 - 1e-6], so
\* alpha is defined and below PI/2, the contour ends where it starts and no
\* coordinate is NaN, whatever the width and the hole radius.
C8_AsinClamped ==
  (Built /\ cap.strategy # "csg") =>
    /\ ~cap.threw
    /\ \A h \in Keyholes :
         /\ ~h.al.nan
         /\ h.al.sn >= 0
         /\ (h.al.den - h.al.sn) * ClampDen >= h.al.den
         /\ h.al.mq < 1000
         /\ NoNaN(h.path)
         /\ h.path[1].exact /\ h.path[Len(h.path)].exact
         /\ h.path[Len(h.path)].x = h.path[1].x
         /\ h.path[Len(h.path)].y = h.path[1].y

\* the half width reaches the radius and the clamp is what keeps alpha defined
C8_Witness ==
  /\ cap.ver \in {"c1", "p2"} /\ ~cap.threw
  /\ \E h \in Keyholes :
       /\ h.halfW > h.circR
       /\ h.al.sn = ClampDen - 1 /\ h.al.den = ClampDen
       /\ NoNaN(h.path)
       /\ h.path[Len(h.path)].x = h.path[1].x /\ h.path[Len(h.path)].y = h.path[1].y

\* the squared distance of v from the origin is that of R, to within the
\* rounding of the coordinates to 1/20 mm
AtRadius(v, R) == Abs(v.x * v.x + v.y * v.y - R * R) <= 2 * R + 1

\* C9: in a keyhole of width W < 2R, with any offset, both tangency points
\* are at distance R from the origin, R the hole radius.
C9_TangencyOnCircle ==
  Returned =>
    \A h \in Keyholes :
      2 * h.halfW < 2 * holeR =>
        /\ AtRadius(h.path[h.iR], holeR)
        /\ AtRadius(h.path[h.iL], holeR)

\* the edge from c to t is perpendicular to the radius through c: the dot
\* product is 0 within 1e-4 of the product of the lengths, and within what
\* the rounding of the coordinates can add
Perpendicular(c, t) ==
  LET ex == t.x - c.x
      ey == t.y - c.y
      ne == ISqrt(ex * ex + ey * ey) + 1
      nr == ISqrt(c.x * c.x + c.y * c.y) + 1
  IN Abs(ex * c.x + ey * c.y) <= (ne * nr) \div 10000 + ne + nr

\* C10: in a keyhole of width W < 2R each straight edge, from a tangency
\* point to its tip-edge point, is perpendicular to the radius at the
\* tangency point.
C10_EdgeTangent ==
  Returned =>
    \A h \in Keyholes :
      2 * h.halfW < 2 * holeR =>
        /\ Perpendicular(h.path[h.iR], h.path[h.iTipR])
        /\ Perpendicular(h.path[h.iL], h.path[h.iTipL])


\* the slot length is left to the builder: options.slotLength absent or 0
AutoLength == ~(Has(options, "slotLength") /\ options.slotLength > 0)

\* the Boundary Oracle at height 0 and the slot angle, before the shrink
RimAt(h) == innerRadiusAt(p, 0, h.theta)

TipRadiusFormula ==
  LET halfWidth == Max(Mm(1) \div 2, Get(options, "slotWidth", Mm(8))) \div 2
      overshoot == Get(options, "slotOvershoot", Mm(1))
      rInner == Max(Mm(1) \div 10, holeR + Get(options, "slotOffset", 0))
      rim == innerRadiusAt(p, 0, slotAngleOf(options))
      rOuter == IF AutoLength THEN RDiv(rim * 995, 1000) ELSE rInner + options.slotLength
  IN rOuter + halfWidth + overshoot

FullTurns(a) == ~a.nan /\ a.s = 0 /\ a.e = 0 /\ a.q % (4 * a.d) = 0

\* v and w are the same point: equal coordinates, or the same circle at
\* angles a whole number of turns apart
SamePoint(v, w) ==
  /\ ~v.nan /\ ~w.nan
  /\ \/ v.exact /\ w.exact /\ v.x = w.x /\ v.y = w.y
     \/ v.cx = w.cx /\ v.cy = w.cy /\ v.r = w.r /\ FullTurns(AngSub(v.a, w.a))

Closed(path) == Len(path) > 1 /\ SamePoint(path[Len(path)], path[1])

\* C13: the outer contour of every resolution tier, the plain circle, the
\* keyhole and the D-slot are closed: the last point emitted is the first
\* point; the outer contour has radialSeg + 1 samples, the one at i = N taken
\* at the angle of the one at i = 0.
C13_Closed ==
  Returned =>
    /\ Closed(cap.outer)
    /\ Len(cap.outer) = radialSeg(p) + 1
    /\ cap.outer[Len(cap.outer)].a = cap.outer[1].a
    /\ \A h \in HoleSet : h.kind \in {"circle", "keyhole", "dslot"} => Closed(h.path)

C13_Witness ==
  /\ cap.ver = "c2" /\ ~cap.threw /\ p.res = "high"
  /\ Len(cap.outer) = 301 /\ Closed(cap.outer)
  /\ Len(cap.holes) = 2
  /\ cap.holes[1].kind = "circle" /\ Closed(cap.holes[1].path)
  /\ cap.holes[2].kind = "dslot" /\ Closed(cap.holes[2].path)


C16_WitnessNull ==
  dbg.called /\ dbg.null /\ dbg.vFrac = 2 /\ Truthy(dbg.o, "bottomSlot")


\* the oracle at every sample of the outer contour, for each of the inputs
oracleOf ==
  [pp \in ParamSets, v \in VFracs |->
     [k \in 1..(radialSeg(pp) + 1) |-> innerRadiusAt(pp, v, outerContourOf[pp, v][k].a)]]

\* C17: innerRadiusAt returns at least 1 (mm) at every height fraction and
\* angle, also where the wall is thicker than the rippled radius, and every
\* vertex of the outer contour has radius at least 0.995.
C17_OracleFloor ==
  Returned =>
    \A k \in 1..Len(cap.outer) :
      /\ oracleOf[p, cap.vFrac][k] >= Mm(1)
      /\ cap.outer[k].r * 1000 >= 995 * Mm(1)
      /\ cap.outer[k].r = Shrink(oracleOf[p, cap.vFrac][k])

\* the wall (5 mm) exceeds the rippled radius (at most 3 * 1.18 * 1.22 mm):
\* the floor of 1 is what the oracle returns
C17_Witness ==
  /\ Returned /\ p.wallFixed = Mm(5) /\ p.rbase = Mm(3)
  /\ \A k \in 1..Len(cap.outer) : oracleOf[p, cap.vFrac][k] = Mm(1)


\* the tilt the builder is given: options.slotTilt ?? 0
SlotTilt == Get(options, "slotTilt", 0)

\* C18 (as stated): the CSG path is taken exactly when the slot is enabled
\* on the bottom cap and its tilt is not 0, the planar extrusion otherwise.
C18_StrategyByTilt ==
  Built => (cap.strategy = "csg" <=> (wantSlot(options, cap.vFrac) /\ SlotTilt # 0))

\* C18 (amended): the strategy is fixed by the revision, and the tilt
\* selects it in the revision of caps.js:225 only: there CSG exactly when
\* the slot is enabled on the bottom cap and the tilt is not 0; the revision
\* of caps.js:481 takes the CSG path in every case; every other revision
\* takes the planar extrusion in every case.
C18_StrategyByRevision ==
  Built =>
    CASE cap.ver = "c2" ->
           (cap.strategy = "csg" <=> (wantSlot(options, cap.vFrac) /\ SlotTilt # 0))
             /\ (cap.strategy # "csg" => cap.strategy = "extrude")
      [] cap.ver = "c3" -> cap.strategy = "csg"
      [] OTHER -> cap.strategy = "extrude" /\ cap.cutters = <<>>

C18_Witness ==
  /\ cap.ver = "c2" /\ ~cap.threw /\ cap.vFrac = 0
  /\ SlotRequested /\ SlotTilt = 1
  /\ cap.strategy = "csg" /\ Len(cap.cutters) = 1 /\ cap.cutters[1].kind = "capsule"

(***************************************************************************)
(* The page: rebuild() of main.js, one action per revision of the file.    *)
(* An object of the scene and a geometry are named by the rebuild that     *)
(* made them (gen) and by what they are (kind); app.group, app.mesh and    *)
(* app.capTopMesh hold the gen of the object the variable refers to, 0     *)
(* while it is undefined.                                                  *)
(***************************************************************************)
Pages == {"p4", "p5", "p6", "p9"}
Mounts == {"standing", "hanging"}

\* rebuilds in one run of the page
MaxRebuilds == 3

\* the shapes the sliders are moved to
RebuildParams == {pp \in ParamSets : pp.res \in {"low", "high"} /\ pp.wallFixed = 14}

\* opts of part_006:86-94, from the slot sliders
SliderOptions ==
  [bottomSlot : {TRUE}, slotWidth : {Mm(24)}, slotAngle : {3}, slotRoll : {0},
   slotLength : {0}, slotOvershoot : {Mm(1)}, slotOffset : SlotOffsets]

\* { bottomSlot: true, slotWidth: 8, slotAngle: 3 * Math.PI / 2 }
FixedSlot == [bottomSlot |-> TRUE, slotWidth |-> Mm(8), slotAngle |-> 3]

\* { bottomSlot: false }; also stands for {} and for the omitted argument,
\* where bottomSlot is undefined and no other key is set
NoSlot == [bottomSlot |-> FALSE]

Obj(g, kind) == [gen |-> g, kind |-> kind]

\* if (group) { scene.remove(group); group.traverse(o => o.geometry.dispose()) }
\* group = new THREE.Group(); the body, then (hanging) the cable and what
\* hangs on it, are made and added to the group before the cap is built
ClearGroup(a, made) ==
  [a EXCEPT !.gen = a.gen + 1,
            !.scene = IF a.group # 0 THEN a.scene \ {Obj(a.group, "group")} ELSE a.scene,
            !.live = (IF a.group # 0 THEN {o \in a.live : o.gen # a.group} ELSE a.live)
                       \cup {Obj(a.gen + 1, k) : k \in {"body"} \cup made},
            !.group = a.gen + 1]

\* the rest of the group's rebuild once the cap call has returned c: the
\* exception leaves rebuild() at the call; otherwise the cap (and the
\* guides) join the group and scene.add(group) is the last statement
FinishGroup(a, c, extras) ==
  IF c.threw THEN [a EXCEPT !.threw = TRUE]
  ELSE [a EXCEPT !.threw = FALSE,
                 !.live = a.live \cup {Obj(a.gen, k) : k \in {"cap"} \cup extras},
                 !.scene = a.scene \cup {Obj(a.gen, "group")}]

InitRebuild ==
  /\ p \in RebuildParams
  /\ options = NoSlot
  /\ holeR = Mm(20)
  /\ cap = NoCap
  /\ calls = 0 /\ last = "none"
  /\ capIn = NoInputs /\ first = NoFirst /\ dbg = NoDebug
  /\ \E page \in Pages :
       /\ app = [NoApp EXCEPT !.page = page]
       /\ ui = NoUi /\ arc = NoArc
       /\ capH = IF page = "p4" THEN Mm(4) ELSE Mm(5)
       /\ rev \in IF page = "p6" THEN DebugRevisions ELSE Revisions

\* the mesh and the top cap are removed from the scene; the new mesh is in
\* the scene before the cap is built
MeshRebuilt(a, m) ==
  [a EXCEPT !.mount = m, !.gen = a.gen + 1, !.mesh = a.gen + 1,
            !.scene = (a.scene \ {Obj(a.mesh, "body"), Obj(a.capTopMesh, "cap")})
                        \cup {Obj(a.gen + 1, "body")},
            !.live = a.live \cup {Obj(a.gen + 1, "body")},
            !.threw = FALSE]

\* capTopMesh = new THREE.Mesh(capTop, ...); scene.add(capTopMesh)
TopCapAdded(a, c) ==
  IF c.threw THEN [a EXCEPT !.threw = TRUE]
  ELSE [a EXCEPT !.capTopMesh = a.gen,
                 !.scene = a.scene \cup {Obj(a.gen, "cap")},
                 !.live = a.live \cup {Obj(a.gen, "cap")}]

\* if (params.mount === "standing") the bottom cap with its slot options,
\* else the top cap and the cable
capEnd(m) == IF m = "standing" THEN 0 ELSE 2
capOptions(m, o) == IF m = "standing" THEN o ELSE NoSlot
hung(m) == IF m = "standing" THEN {} ELSE {"cable"}

\* the page after rebuild(), one definition per revision of main.js: a is
\* the page before, m the mount selected, c what buildConformingCap
\* returned (or that it threw), d what buildSlotDebug returned
Rebuild_p4(a, m, c) ==
  IF m = "hanging" THEN TopCapAdded(MeshRebuilt(a, m), c) ELSE MeshRebuilt(a, m)

\* params.mount = "hanging"; body, bulb, cable, socket, then the top cap
Rebuild_p5(a, c) ==
  FinishGroup([ClearGroup(a, {"bulb", "cable", "socket"}) EXCEPT !.mount = "hanging"],
              c, {})

\* standing: the bottom cap with the sliders' slot, and the guides when
\* params.slotDebug is set; hanging: the cable and the top cap
Rebuild_p6(a, m, sd, c, d) ==
  FinishGroup([ClearGroup(a, hung(m)) EXCEPT !.mount = m, !.slotDebug = sd], c,
              IF m = "standing" /\ sd /\ ~d.null THEN {"debug"} ELSE {})

\* standing: the bottom cap with the fixed slot; hanging: the cable and the
\* top cap, holeR and options left to their defaults
Rebuild_p9(a, m, c) ==
  FinishGroup([ClearGroup(a, hung(m)) EXCEPT !.mount = m], c, {})

\* the call of buildConformingCap a rebuild makes, if any, and the params
\* it leaves behind: part_004 does not clamp and builds no cap when standing
capCall(page, m, pp, o) ==
  CASE page = "p4" -> [made |-> m = "hanging", p |-> pp, vFrac |-> 2, options |-> NoSlot]
    [] page = "p5" -> [made |-> TRUE, p |-> clampForBambu(pp), vFrac |-> 2,
                       options |-> NoSlot]
    [] page = "p6" -> [made |-> TRUE, p |-> clampForBambu(pp), vFrac |-> capEnd(m),
                       options |-> capOptions(m, o)]
    [] page = "p9" -> [made |-> TRUE, p |-> clampForBambu(pp), vFrac |-> capEnd(m),
                       options |-> capOptions(m, FixedSlot)]

\* a control moved (or the page loaded) and rebuild() ran, to its end or to
\* the exception
Rebuild ==
  /\ app.gen < MaxRebuilds
  /\ \E m \in Mounts, pp \in RebuildParams, sd \in BOOLEAN, o \in SliderOptions :
       \E call \in {capCall(app.page, m, pp, o)} :
         /\ p' = call.p
         /\ cap' = IF call.made
                   THEN buildConformingCap(rev, call.p, call.vFrac, capH, holeR, call.options)
                   ELSE cap
         /\ options' = IF call.made THEN call.options ELSE options
         /\ capIn' = IF call.made
                     THEN Inputs(call.p, call.vFrac, capH, holeR, call.options)
                     ELSE capIn
         /\ dbg' = IF app.page = "p6" /\ m = "standing" /\ sd /\ ~cap'.threw
                   THEN buildSlotDebug(rev, call.p, 0, holeR, call.options)
                   ELSE dbg
         /\ app' = CASE app.page = "p4" -> Rebuild_p4(app, m, cap')
                     [] app.page = "p5" -> Rebuild_p5(app, cap')
                     [] app.page = "p6" -> Rebuild_p6(app, m, sd, cap', dbg')
                     [] app.page = "p9" -> Rebuild_p9(app, m, cap')
  /\ calls' = calls + 1 /\ last' = "rebuild"
  /\ UNCHANGED <<holeR, capH, rev, first, ui, arc>>

NextRebuild == Rebuild

SpecRebuild == InitRebuild /\ [][NextRebuild]_vars

(***************************************************************************)
(* The page with its controls bound: every event of a slider or of the     *)
(* mount select writes params[key] and runs rebuild()                      *)
(***************************************************************************)
\* export const params = { height: 230, rbase: 90, topscale: 0.70, ... }
DefaultParams ==
  [height |-> Mm(230), rbase |-> Mm(90), topscale |-> 70, waves |-> 18, amp |-> 22,
   twist |-> 420, ripdir |-> "vertical", res |-> "med", wallFixed |-> 14]

\* the controls the model moves: bindRange("height" | "rbase" | "amp", ...)
\* and bindSelect("mount", ...)
ControlKeys == {"height", "rbase", "amp", "mount"}
ControlValues(key) ==
  CASE key = "height" -> SliderHeights
    [] key = "rbase" -> SliderRbases
    [] key = "amp" -> SliderAmps
    [] key = "mount" -> Mounts

\* the params object: the shape and the mount
ParamsOf(pp, m) ==
  [height |-> pp.height, rbase |-> pp.rbase, topscale |-> pp.topscale,
   waves |-> pp.waves, amp |-> pp.amp, twist |-> pp.twist, ripdir |-> pp.ripdir,
   res |-> pp.res, wallFixed |-> pp.wallFixed, mount |-> m]
ShapeOfParams(pr) ==
  [height |-> pr.height, rbase |-> pr.rbase, topscale |-> pr.topscale,
   waves |-> pr.waves, amp |-> pr.amp, twist |-> pr.twist, ripdir |-> pr.ripdir,
   res |-> pr.res, wallFixed |-> pr.wallFixed]

\* a handler that leaves params as it was
bindWrite_stale(pr, key, value) == pr

\* params[key] = parseFloat(el.value); params[key] = e.target.value
bindWrite(pr, key, value) == [pr EXCEPT ![key] = value]

\* opts of part_006:86-94 with the slot sliders where they stand
SlotOptionsOf(u) ==
  [bottomSlot |-> TRUE, slotWidth |-> Mm(24), slotAngle |-> 3, slotRoll |-> 0,
   slotLength |-> 0, slotOvershoot |-> Mm(1), slotOffset |-> u.slotOffset]

UIPages == {"p6", "p9"}

\* the page loaded, the controls at the values of params, nothing bound yet
InitUI ==
  /\ p = DefaultParams
  /\ options = NoSlot
  /\ holeR = Mm(20)
  /\ capH = Mm(5)
  /\ cap = NoCap
  /\ calls = 0 /\ last = "none"
  /\ capIn = NoInputs /\ first = NoFirst /\ dbg = NoDebug /\ arc = NoArc
  /\ \E page \in UIPages, off \in SlotOffsets :
       /\ app = [NoApp EXCEPT !.page = page]
       /\ ui = [height |-> DefaultParams.height, rbase |-> DefaultParams.rbase,
                amp |-> DefaultParams.amp, mount |-> "standing", slotOffset |-> off]
       /\ rev \in IF page = "p6" THEN DebugRevisions ELSE Revisions

\* update() of bindRange (at bind time and on "input") and the "change"
\* handler of bindSelect: the control's value is written to params[key], then
\* rebuild() runs, to its end or to the exception
ControlEvent ==
  /\ app.gen < MaxRebuilds
  /\ \E key \in ControlKeys :
       \E value \in ControlValues(key) :
         \E pr \in {bindWrite(ParamsOf(p, app.mount), key, value)} :
           \E call \in {capCall(app.page, pr.mount, ShapeOfParams(pr), SlotOptionsOf(ui))} :
             /\ ui' = [ui EXCEPT ![key] = value]
             /\ p' = call.p
             /\ cap' = buildConformingCap(rev, call.p, call.vFrac, capH, holeR,
                                          call.options)
             /\ options' = call.options
             /\ capIn' = Inputs(call.p, call.vFrac, capH, holeR, call.options)
             /\ app' = IF app.page = "p6"
                       THEN Rebuild_p6(app, pr.mount, FALSE, cap', dbg)
                       ELSE Rebuild_p9(app, pr.mount, cap')
  /\ calls' = calls + 1 /\ last' = "event"
  /\ UNCHANGED <<holeR, capH, rev, first, dbg, arc>>

NextUI == ControlEvent

SpecUI == InitUI /\ [][NextUI]_vars

(***************************************************************************)
(* One call of clampForBambu on parameters of every size                   *)
(***************************************************************************)
\* the revision of part_012: rbase is first cut to MAX_RBASE
MaxRbase == Mm(64)
clampForBambu_p12(pp) ==
  clampForBambu([pp EXCEPT !.rbase = IF pp.rbase > MaxRbase THEN MaxRbase ELSE pp.rbase])

\* params of any size handed to clampForBambu: amp and topscale in
\* hundredths, below and above what the limit is computed for
ClampInputs ==
  [height : {Mm(230), Mm(250), Mm(300)}, rbase : {Mm(21), Mm(60), Mm(90), Mm(200)},
   topscale : {70, 100, 150}, waves : {18}, amp : {-50, 0, 22, 60}, twist : {420},
   ripdir : {"vertical"}, res : {"med"}, wallFixed : {14}]

\* Math.sin at the angles where the ripple is deepest, flat and highest, in
\* thousandths
SinValues == {-1000, 0, 1000}

\* the radius of a vertex of buildSurface at height fraction v (in halves)
\* and an angle whose ripple sine is sn: br * (1 + amp * sin(...))
surfaceRadius(pp, v, sn) ==
  LET R0 == pp.rbase
      R1 == RDiv(R0 * pp.topscale, 100)
      br == baseRadius(v, R0, R1)
  IN RDiv(br * (100000 + pp.amp * sn), 100000)

InitClamp ==
  /\ p \in ClampInputs
  /\ options = NoSlot
  /\ holeR = Mm(20)
  /\ capH = Mm(5)
  /\ cap = NoCap
  /\ rev = "any" /\ calls = 0 /\ last = "none"
  /\ capIn = NoInputs /\ first = NoFirst /\ dbg = NoDebug
  /\ app = NoApp /\ ui = NoUi /\ arc = NoArc

\* clampForBambu(params) of src/src/params.js
Clamp ==
  /\ last = "none"
  /\ p' = clampForBambu(p)
  /\ last' = "clamp"
  /\ UNCHANGED <<options, holeR, capH, cap, rev, calls, capIn, first, dbg, app, ui, arc>>

\* clampForBambu(params) of part_012
Clamp_p12 ==
  /\ last = "none"
  /\ p' = clampForBambu_p12(p)
  /\ last' = "clamp12"
  /\ UNCHANGED <<options, holeR, capH, cap, rev, calls, capIn, first, dbg, app, ui, arc>>

NextClamp == Clamp \/ Clamp_p12

SpecClamp == InitClamp /\ [][NextClamp]_vars

\* the lamp body made by the latest rebuild is rendered: in the scene
\* itself, or in a group that is in the scene
BodyInScene ==
  \/ Obj(app.gen, "body") \in app.scene
  \/ /\ Obj(app.gen, "group") \in app.scene
     /\ Obj(app.gen, "body") \in app.live

\* C19: when buildConformingCap throws during a rebuild, the lamp body the
\* rebuild made stays in the scene.
C19_BodyStays ==
  (app.gen > 0 /\ app.threw) => BodyInScene

\* C20: after any sequence of rebuilds the scene holds the lamp of the most
\* recent rebuild and nothing of an earlier one, and every geometry of an
\* earlier rebuild has been disposed.
C20_OneLamp ==
  app.gen > 0 =>
    /\ \E o \in app.scene : o.gen = app.gen
    /\ \A o \in app.scene : o.gen = app.gen
    /\ \A o \in app.live : o.gen = app.gen

\* C21: no vertex of the contours of the cap returned is NaN, also when a
\* slot option (here the slot angle) is NaN.
C21_NoNaNVertex ==
  Returned =>
    /\ NoNaN(cap.outer)
    /\ \A h \in HoleSet : NoNaN(h.path)

\* the angle a is (q * pi/2 + s * alpha) exactly
AngIs(a, q, s) == ~a.nan /\ a.q = q * a.d /\ a.s = s * a.d /\ a.e = 0

\* the angle swept from vertex i to vertex j of a path
Sweep(path, i, j) == AngSub(path[j].a, path[i].a)

\* C22: the last piece of the keyhole contour, from the left tangency point
\* back to the right one, sweeps clockwise over 2*PI - 2*alpha.
C22_BigArc ==
  (Returned /\ cap.ver \in {"c1", "p2"}) =>
    \A h \in Keyholes : AngIs(Sweep(h.path, h.iL, Len(h.path)), -4, 2)

\* the angle a is s * alpha up to whole turns
AngIsMod(a, s) == ~a.nan /\ a.q % (4 * a.d) = 0 /\ a.s = s * a.d /\ a.e = 0

\* C23: the right tangency point of a keyhole is on the fitting circle at
\* theta - alpha and the left one at theta + alpha, theta the direction of
\* the slot centerline.
C23_TangencyAngles ==
  Returned =>
    \A h \in Keyholes :
      /\ AngIsMod(AngSub(h.path[h.iR].a, h.theta), -1)
      /\ AngIsMod(AngSub(h.path[h.iL].a, h.theta), 1)

\* the holes that are slots
SlotHoles == {h \in HoleSet : h.kind \in {"keyhole", "dslot"}}

\* C24: the tip arc runs from the tip-right edge point to the tip-left edge
\* point with decreasing angle over exactly PI, and bulges away from the
\* axis: with roll 0 its middle point lies in the direction theta from the
\* tip centre, at radius rTip + halfWidth on the centerline.
C24_TipArc ==
  (Returned /\ cap.ver \in {"c1", "c2"}) =>
    \A h \in SlotHoles :
      /\ AngIs(Sweep(h.path, h.iTipR, h.iTipL), -2, 0)
      /\ Get(options, "slotRoll", 0) = 0 =>
           AngIsMod(AngSub(h.path[h.iTipR + 16].a, h.theta), 0)

\* C25: the CSG build of the bottom cap with the slot requested returns the
\* blank from which both the fitting-hole cylinder and the slot capsule have
\* been subtracted.
C25_BothCuts ==
  (Built /\ cap.ver = "c3" /\ cap.vFrac = 0 /\ SlotRequested) =>
    /\ ~cap.threw
    /\ Len(cap.cutters) = 2
    /\ cap.cutters[1].kind = "cylinder"
    /\ cap.cutters[2].kind = "capsule" /\ cap.cutters[2].defined

\* the angle stepped from to reach point i of the arc
ArcFrom(i) == IF i = 1 THEN arc.aStart ELSE arc.pts[i - 1].a

\* seg points, each at a smaller angle than the one before, the last one at
\* aEnd up to whole turns, the whole sweep in (0, 2*PI]
ArcClockwise ==
  /\ Len(arc.pts) = arc.seg
  /\ \A i \in 1..Len(arc.pts) : AngSign(AngSub(ArcFrom(i), arc.pts[i].a), ArcAlpha) > 0
  /\ Len(arc.pts) > 0 =>
       /\ AngIsMod(AngSub(arc.pts[Len(arc.pts)].a, arc.aEnd), 0)
       /\ AngSign(AngSub(arc.aStart, arc.pts[Len(arc.pts)].a), ArcAlpha) > 0
       /\ AngSign(AngSub(AngAdd(arc.pts[Len(arc.pts)].a, Quarter(4)), arc.aStart),
                  ArcAlpha) >= 0

\* -2*PI <= aEnd - aStart < 2*PI
ArcWithinTurn ==
  /\ AngSign(AngAdd(AngSub(arc.aEnd, arc.aStart), Quarter(4)), ArcAlpha) >= 0
  /\ AngSign(AngSub(AngSub(arc.aEnd, arc.aStart), Quarter(4)), ArcAlpha) < 0

C26_ArcWithinTurn == (arc.called /\ ArcWithinTurn) => ArcClockwise

C26_Witness ==
  /\ arc.called /\ ArcWithinTurn /\ arc.seg = 32
  /\ AngGeq(arc.aEnd, arc.aStart, ArcAlpha)
  /\ AngIs(AngSub(arc.pts[32].a, arc.aEnd), -4, 0)

\* buildSlotDebug has returned guides that end with the two tangency markers
HasTangencyMarkers == dbg.called /\ ~dbg.null /\ Len(dbg.items) = 7

\* C28: the two tangency markers of buildSlotDebug are centred on the points
\* where the slot edges meet the central circle in the hole contour that
\* buildConformingCap of the same revision builds from the same hole radius
\* and slot options.
C28_MarkersOnContour ==
  (Returned /\ HasTangencyMarkers /\ capIn.vFrac = 0 /\ capIn.options = dbg.o) =>
    \A h \in Keyholes : /\ SamePoint(dbg.items[6].a, h.path[h.iR])
                        /\ SamePoint(dbg.items[7].a, h.path[h.iL])

\* the body of the lamp is inside the printer's volume: no higher than
\* 256 - safety and, at the bottom, the belly and the top, at the deepest
\* and the highest point of the ripple, no wider than 128 - safety
FitsVolume ==
  /\ p.height <= MaxHeight
  /\ \A v \in VFracs, sn \in SinValues : surfaceRadius(p, v, sn) <= MaxHalf

\* C29: after clampForBambu(p) the height is at most 250 and the surface
\* radius baseRadius(v, rbase, rbase * topscale) * (1 + amp * sin) is at most
\* 122 at every height and angle, for every value of amp and topscale.
C29_FitsVolume == last \in {"clamp", "clamp12"} => FitsVolume

C30_ClampFollowsSliders ==
  last = "event" =>
    /\ p.rbase = Min(ui.rbase, radialLimit(p))
    /\ p.height = Min(ui.height, MaxHeight)

=============================================================================
